---- MODULE Spec2Model ----
(***************************************************************************)
(* A Plus Charge backend (src/main.py): the HTTP surface                  *)
(*   GET /, GET /test, POST /api/leads, POST /api/roi,                     *)
(* the notification dispatcher send_auto_email and the ROI arithmetic.    *)
(*                                                                         *)
(* Text is a TLA+ string where only equality and concatenation are used   *)
(* (names, subjects, exception texts) and a sequence of one-character     *)
(* strings where the code looks inside it (e-mail addresses, sliced error *)
(* messages).  Real numbers are exact decimals [n |-> mantissa,           *)
(* s |-> number of decimal places]; binary floating-point error is not    *)
(* modelled.                                                               *)
(***************************************************************************)
EXTENDS Integers, Sequences, FiniteSets, TLC

VARIABLES
    env,        \* os.environ: variable name -> [set, val]
    store,      \* the "lead" collection of the document store, in write order
    endpoint,   \* the route of the last request served ("none" before any)
    req,        \* the JSON body of the last POST /api/leads
    log,        \* what the last request did to its collaborators, in program order
    resp,       \* the HTTP response of the last GET / or POST /api/leads
    roi_in,     \* the ROICalcIn of the last POST /api/roi
    roi_out,    \* the ROICalcOut of the last POST /api/roi
    db,         \* the `db` attribute of the database module
    test_resp   \* the response of the last GET /test

vars == <<env, store, endpoint, req, log, resp, roi_in, roi_out, db, test_resp>>

\* Documents the lead collection may hold before the model stops writing.
MaxStore == 2

(***************************************************************************)
(* Environment                                                             *)
(***************************************************************************)
Unset == [set |-> FALSE, val |-> ""]

EnvVal(s) == [set |-> TRUE, val |-> s]

\* os.getenv(name): None when unset, else the string (possibly empty).
Getenv(e, name) == e[name]

\* `is not None` in place of truthiness: "" counts as configured.
Truthy_IsNotNone(v) == v.set

\* Python truthiness of an Optional[str]: None and "" are falsy.
Truthy(v) == v.set /\ v.val # ""

EnvNames == {"RESEND_API_KEY", "MAILGUN_API_KEY", "MAILGUN_DOMAIN",
             "NOTIFY_EMAIL", "DATABASE_URL"}

EnvChoices(name) ==
    CASE name = "RESEND_API_KEY"  -> {Unset, EnvVal(""), EnvVal("re_key")}
      [] name = "MAILGUN_API_KEY" -> {Unset, EnvVal("mg_key")}
      [] name = "MAILGUN_DOMAIN"  -> {Unset, EnvVal("mg.example.com")}
      [] name = "NOTIFY_EMAIL"    -> {Unset, EnvVal(""), EnvVal("sales@apluscharge.com")}
      [] name = "DATABASE_URL"    -> {Unset, EnvVal(""), EnvVal("mongodb://db")}

Envs == { e \in [EnvNames -> UNION {EnvChoices(n) : n \in EnvNames}] :
              \A n \in EnvNames : e[n] \in EnvChoices(n) }

(***************************************************************************)
(* LeadIn and its validation (pydantic, before the handler runs)           *)
(***************************************************************************)
\* A JSON member: absent, null, a number or a string.
Missing == [t |-> "missing", v |-> "", cs |-> <<>>]

JNum == [t |-> "num", v |-> "42", cs |-> <<>>]

JStr(s) == [t |-> "str", v |-> s, cs |-> <<>>]

JChars(cs) == [t |-> "str", v |-> "", cs |-> cs]

IndexesOf(cs, c) == { i \in 1..Len(cs) : cs[i] = c }

\* EmailStr: one "@", a non-empty local part, a domain of at least two
\* non-empty labels separated by ".".
ValidEmail(cs) ==
    /\ Cardinality(IndexesOf(cs, "@")) = 1
    /\ LET at == CHOOSE i \in IndexesOf(cs, "@") : TRUE
           dots == { i \in IndexesOf(cs, ".") : i > at }
       IN /\ at > 1
          /\ cs[1] # "." /\ cs[at - 1] # "."
          /\ dots # {}
          /\ at + 1 \notin dots
          /\ Len(cs) \notin dots
          /\ \A i \in dots : i + 1 \notin dots

LowerChar(c) == IF c = "B" THEN "b" ELSE c

\* EmailStr returns the address with its domain lower-cased.
NormalizeEmail(cs) ==
    LET at == CHOOSE i \in IndexesOf(cs, "@") : TRUE
    IN [i \in 1..Len(cs) |-> IF i > at THEN LowerChar(cs[i]) ELSE cs[i]]

NameChoices == {Missing, JNum, JStr(""), JStr("Asha")}

EmailChoices ==
    {Missing,
     JChars(<<"a">>),
     JChars(<<"a", "@", "b">>),
     JChars(<<"@", "b", ".", "c">>),
     JChars(<<"a", "@", "b", ".", "c">>),
     JChars(<<"a", "@", "B", ".", "c">>)}

\* The optional free-form members (phone, company, message, city, state,
\* country, source, utm_*) are left out: any value or none is accepted and
\* no branch of the handler that changes state reads them.
Payloads == [name : NameChoices, email : EmailChoices]

\* class LeadIn: the fields whose validation fails ({} when the body is valid).
\* name: str is required and must be a string (any string, "" included);
\* email: EmailStr is required and must parse.
ValidationErrors_NoEmailCheck(p) ==
    (IF p.name.t # "str" THEN {"name"} ELSE {})
    \cup (IF p.email.t # "str" THEN {"email"} ELSE {})

ValidationErrors(p) ==
    (IF p.name.t # "str" THEN {"name"} ELSE {})
    \cup (IF p.email.t # "str" \/ ~ValidEmail(p.email.cs) THEN {"email"} ELSE {})

\* The LeadIn instance built from a valid body.
LeadIn(p) ==
    [name  |-> p.name.v,
     email |-> IF ValidEmail(p.email.cs) THEN NormalizeEmail(p.email.cs) ELSE p.email.cs]

\* lead.model_dump()
model_dump(lead) == [name |-> lead.name, email |-> lead.email]

(***************************************************************************)
(* Document store client (database.create_document)                        *)
(***************************************************************************)
RECURSIVE DecStr(_)
\* str(n) for n >= 0, as characters.
DecStr(n) ==
    LET d == <<"0", "1", "2", "3", "4", "5", "6", "7", "8", "9">>[(n % 10) + 1]
    IN IF n < 10 THEN <<d>> ELSE Append(DecStr(n \div 10), d)

NoExc == [type |-> "", msg |-> ""]

\* What a write can do: succeed, or raise one of these.
WriteOutcomes ==
    {NoExc,
     [type |-> "Exception", msg |-> "Database not available"],
     [type |-> "ServerSelectionTimeoutError", msg |-> "db:27017: timed out"]}

\* create_document(collection, data): inserts the document and returns a
\* generated identifier, or raises and leaves the collection as it was.
create_document(st, collection, data, wr) ==
    IF wr # NoExc
    THEN [exc |-> wr, id |-> <<>>, store |-> st]
    ELSE LET id == <<"i", "d">> \o DecStr(Len(st) + 1)
         IN [exc |-> NoExc, id |-> id,
             store |-> Append(st, [id |-> id, doc |-> data])]

(***************************************************************************)
(* Notification dispatcher                                                 *)
(***************************************************************************)
\* What requests.post can do: return a response with a status code, or raise.
NetOutcomes ==
    {[exc |-> "", code |-> 200],
     [exc |-> "", code |-> 500],
     [exc |-> "ConnectionError", code |-> 0],
     [exc |-> "Timeout", code |-> 0]}

\* resp.raise_for_status(): HTTPError for a 4xx or 5xx status.
RaiseForStatus(code) == IF code >= 400 /\ code < 600 THEN "HTTPError" ELSE ""

\* requests.post(url, ..., timeout=10) followed by resp.raise_for_status():
\* the request made and the exception that leaves the pair ("" for none).
PostAndCheck(provider, to_email, subject, net) ==
    [post |-> [provider |-> provider, to |-> to_email, subject |-> subject,
               outcome |-> net],
     exc  |-> IF net.exc # "" THEN net.exc ELSE RaiseForStatus(net.code)]

\* A Resend failure falls through to Mailgun.
TryBody_Fallback(e, to_email, subject, net) ==
    LET resend == PostAndCheck("resend", to_email, subject, net)
        mailgun == PostAndCheck("mailgun", to_email, subject, net)
        has_mg == Truthy(Getenv(e, "MAILGUN_API_KEY")) /\ Truthy(Getenv(e, "MAILGUN_DOMAIN"))
    IN IF Truthy(Getenv(e, "RESEND_API_KEY"))
       THEN IF resend.exc # "" /\ has_mg
            THEN [posts |-> <<resend.post, mailgun.post>>, exc |-> mailgun.exc]
            ELSE [posts |-> <<resend.post>>, exc |-> resend.exc]
       ELSE IF has_mg
       THEN [posts |-> <<mailgun.post>>, exc |-> mailgun.exc]
       ELSE [posts |-> <<>>, exc |-> ""]

\* The try block of send_auto_email: the requests made and the
\* exception that leaves the block ("" when it returns).
TryBody(e, to_email, subject, net) ==
    LET resend_api_key  == Getenv(e, "RESEND_API_KEY")
        mailgun_api_key == Getenv(e, "MAILGUN_API_KEY")
        mailgun_domain  == Getenv(e, "MAILGUN_DOMAIN")
    IN IF Truthy(resend_api_key)
       THEN LET r == PostAndCheck("resend", to_email, subject, net)
            IN [posts |-> <<r.post>>, exc |-> r.exc]
       ELSE IF Truthy(mailgun_api_key) /\ Truthy(mailgun_domain)
       THEN LET r == PostAndCheck("mailgun", to_email, subject, net)
            IN [posts |-> <<r.post>>, exc |-> r.exc]
       ELSE [posts |-> <<>>, exc |-> ""]

\* raise_for_status() placed after the try block: network errors are
\* discarded, an HTTP error status reaches the caller.
send_auto_email_StatusOutsideTry(e, to_email, subject, net) ==
    LET r == TryBody(e, to_email, subject, net)
    IN IF r.exc = "HTTPError"
       THEN [posts |-> r.posts, caught |-> "", raised |-> r.exc]
       ELSE [posts |-> r.posts, caught |-> r.exc, raised |-> ""]

\* The except clause missing: the exception reaches the caller.
send_auto_email_NoCatch(e, to_email, subject, net) ==
    LET r == TryBody(e, to_email, subject, net)
    IN [posts |-> r.posts, caught |-> "", raised |-> r.exc]

\* send_auto_email(to_email, subject, html): `except Exception: pass`
\* discards whatever the try block raised.
send_auto_email(e, to_email, subject, net) ==
    LET r == TryBody(e, to_email, subject, net)
    IN [posts |-> r.posts, caught |-> r.exc, raised |-> ""]

(***************************************************************************)
(* POST /api/leads                                                         *)
(***************************************************************************)
NoReq == [name |-> Missing, email |-> Missing]

NoResp == [code |-> 0, status |-> "", id |-> <<>>, detail |-> "", errors |-> {},
           message |-> ""]

\* FastAPI's answer to a body that fails validation.
Http422(errs) == [NoResp EXCEPT !.code = 422, !.errors = errs]

\* raise HTTPException(status_code=500, detail=...)
HTTPException(status_code, detail) ==
    [NoResp EXCEPT !.code = status_code, !.detail = detail]

\* return {"status": "success", "id": lead_id}
SuccessBody(lead_id) == [NoResp EXCEPT !.code = 200, !.status = "success", !.id = lead_id]

\* repr(e) in place of str(e)
Str_Repr(exc) == exc.type \o "('" \o exc.msg \o "')"

\* str(e) of an exception
Str(exc) == exc.msg

ConfirmSubject == "Thanks for contacting A Plus Charge"

WriteEv(data, w) ==
    [ev |-> "store_write", collection |-> "lead", doc |-> data, exc |-> w.exc, id |-> w.id]

\* One call of send_auto_email.  `to` is the lead's address (characters) for
\* the confirmation and the NOTIFY_EMAIL string for the internal alert.
SendEv(kind, to_email, subject, r) ==
    [ev |-> "send", kind |-> kind, to |-> to_email, subject |-> subject,
     posts |-> r.posts, caught |-> r.caught, raised |-> r.raised]

\* create_lead(lead): the collection after the call, the side effects in
\* program order, and the response.
create_lead(lead, e, st, wr, n1, n2) ==
    LET data == model_dump(lead)
        w == create_document(st, "lead", data, wr)
        l0 == <<WriteEv(data, w)>>
    IN IF w.exc # NoExc
       THEN [store |-> w.store, log |-> l0, resp |-> HTTPException(500, Str(w.exc))]
       ELSE
       LET s1 == send_auto_email(e, lead.email, ConfirmSubject, n1)
           l1 == Append(l0, SendEv("confirmation", lead.email, ConfirmSubject, s1))
       IN IF s1.raised # ""
          THEN [store |-> w.store, log |-> l1, resp |-> HTTPException(500, s1.raised)]
          ELSE
          LET notify_email == Getenv(e, "NOTIFY_EMAIL")
          IN IF ~Truthy(notify_email)
             THEN [store |-> w.store, log |-> l1, resp |-> SuccessBody(w.id)]
             ELSE
             LET subject2 == "New Lead: " \o lead.name
                 s2 == send_auto_email(e, notify_email.val, subject2, n2)
                 l2 == Append(l1, SendEv("internal", notify_email.val, subject2, s2))
             IN IF s2.raised # ""
                THEN [store |-> w.store, log |-> l2, resp |-> HTTPException(500, s2.raised)]
                ELSE [store |-> w.store, log |-> l2, resp |-> SuccessBody(w.id)]

\* POST /api/leads with body p: validation, then the handler.
PostApiLeads ==
    \E p \in Payloads, wr \in WriteOutcomes, n1 \in NetOutcomes, n2 \in NetOutcomes :
        /\ endpoint = "none"
        /\ endpoint' = "/api/leads"
        /\ req' = p
        /\ IF ValidationErrors(p) # {}
           THEN /\ resp' = Http422(ValidationErrors(p))
                /\ log' = <<>>
                /\ store' = store
           ELSE LET r == create_lead(LeadIn(p), env, store, wr, n1, n2)
                IN /\ Len(r.store) <= MaxStore
                   /\ resp' = r.resp
                   /\ log' = r.log
                   /\ store' = r.store
        /\ UNCHANGED <<env, roi_in, roi_out, db, test_resp>>

\* GET /
read_root ==
    /\ endpoint = "none"
    /\ endpoint' = "/"
    /\ resp' = [NoResp EXCEPT !.code = 200, !.message = "A Plus Charge Backend Running"]
    /\ UNCHANGED <<env, store, req, log, roi_in, roi_out, db, test_resp>>

(***************************************************************************)
(* POST /api/roi                                                           *)
(***************************************************************************)
\* Largest whole number of daily sessions tried (besides the worked example).
MaxDaily == 2

\* The decimal n / 10^s.
Dec(n, s) == [n |-> n, s |-> s]

RECURSIVE Pow10(_)
Pow10(k) == IF k = 0 THEN 1 ELSE 10 * Pow10(k - 1)

RECURSIVE Norm(_)
\* The same value with no trailing zero decimal places.
Norm(d) == IF d.s > 0 /\ d.n % 10 = 0 THEN Norm(Dec(d.n \div 10, d.s - 1)) ELSE d

Max(a, b) == IF a >= b THEN a ELSE b

Min(a, b) == IF a <= b THEN a ELSE b

Abs(a) == IF a < 0 THEN 0 - a ELSE a

\* a * b
Mul(a, b) == Norm(Dec(a.n * b.n, a.s + b.s))

\* a + b
Add(a, b) ==
    LET s == Max(a.s, b.s)
    IN Norm(Dec(a.n * Pow10(s - a.s) + b.n * Pow10(s - b.s), s))

\* a - b
Sub(a, b) == Add(a, Dec(0 - b.n, b.s))

\* n / d (d > 0) rounded to the nearest integer, ties to the even one.
RoundHalfEven(n, d) ==
    LET q == n \div d
        r == n % d
    IN IF 2 * r < d THEN q
       ELSE IF 2 * r > d THEN q + 1
       ELSE IF q % 2 = 0 THEN q ELSE q + 1

\* round(x, 2): x to two decimal places.
Round2(x) ==
    IF x.s <= 2 THEN Norm(x) ELSE Norm(Dec(RoundHalfEven(x.n, Pow10(x.s - 2)), 2))

\* round(a / b, 2) for a >= 0 and b > 0, as whole units and hundredths
\* (the quotient in hundredths can exceed 32-bit integers, so the two
\* decimal digits are produced one at a time).
RoundDiv2(a, b) ==
    LET num   == a.n * Pow10(b.s)
        den   == b.n * Pow10(a.s)
        whole == num \div den
        r0    == num % den
        d1    == (r0 * 10) \div den
        r1    == (r0 * 10) % den
        d2    == (r1 * 10) \div den
        r2    == (r1 * 10) % den
        h     == 10 * d1 + d2
        up    == 2 * r2 > den \/ (2 * r2 = den /\ h % 2 = 1)
        h2    == IF up THEN h + 1 ELSE h
    IN IF h2 = 100 THEN [whole |-> whole + 1, cents |-> 0]
       ELSE [whole |-> whole, cents |-> h2]

\* payback_months = None
NoPayback == [present |-> FALSE, neg |-> FALSE, whole |-> 0, cents |-> 0]

NoRoiIn == [daily_sessions |-> Dec(0, 0), avg_kwh_per_session |-> Dec(0, 0),
            tariff_per_kwh |-> Dec(0, 0), cost_per_kwh |-> Dec(0, 0),
            station_cost |-> Dec(0, 0), opex_per_month |-> Dec(0, 0)]

NoRoiOut == [code |-> 0, monthly_revenue |-> Dec(0, 0), monthly_cost |-> Dec(0, 0),
             monthly_profit |-> Dec(0, 0), payback_months |-> NoPayback]

\* ROICalcIn bodies tried: the worked examples of the documentation, zero
\* values, a zero profit, fractions that round, and a profit below half a
\* cent.  None of them yields an exact half-cent, where the result of
\* round() on a binary float depends on the float's own error; on all of
\* them the exact decimals below agree with Python's floats.
RoiInputs ==
    [daily_sessions      : {Dec(k, 0) : k \in 0..MaxDaily} \cup {Dec(10, 0)},
     avg_kwh_per_session : {Dec(1, 0), Dec(73, 1), Dec(20, 0)},
     tariff_per_kwh      : {Dec(1, 4), Dec(5, 0), Dec(6004, 3), Dec(10, 0)},
     cost_per_kwh        : {Dec(0, 0), Dec(5, 0), Dec(6, 0)},
     station_cost        : {Dec(0, 0), Dec(100, 0), Dec(100000, 0)},
     opex_per_month      : {Dec(0, 0), Dec(3, 3), Dec(1000, 0)}]

\* The guard tests the profit alone.
PaybackGuard_ProfitOnly(profit, station_cost) == profit.n > 0

\* if profit > 0 and payload.station_cost > 0
PaybackGuard(profit, station_cost) == profit.n > 0 /\ station_cost.n > 0

\* The profit is taken from the rounded revenue and the rounded cost.
Profit_OfRounded(revenue, monthly_cost) == Sub(Round2(revenue), Round2(monthly_cost))

\* profit = revenue - monthly_cost
Profit(revenue, monthly_cost) == Sub(revenue, monthly_cost)

\* calculate_roi(payload): the ROICalcOut, or 500 when the division raises
\* ZeroDivisionError.  A quotient by a negative profit is negative.
calculate_roi(payload) ==
    LET sessions_per_month == Mul(payload.daily_sessions, Dec(30, 0))
        energy_sold  == Mul(sessions_per_month, payload.avg_kwh_per_session)
        revenue      == Mul(energy_sold, payload.tariff_per_kwh)
        energy_cost  == Mul(energy_sold, payload.cost_per_kwh)
        monthly_cost == Add(energy_cost, payload.opex_per_month)
        profit       == Profit(revenue, monthly_cost)
        divides      == PaybackGuard(profit, payload.station_cost)
    IN IF divides /\ profit.n = 0
       THEN [NoRoiOut EXCEPT !.code = 500]
       ELSE [code |-> 200,
             monthly_revenue |-> Round2(revenue),
             monthly_cost    |-> Round2(monthly_cost),
             monthly_profit  |-> Round2(profit),
             payback_months  |->
                 IF divides
                 THEN LET q == RoundDiv2(payload.station_cost,
                                         Dec(Abs(profit.n), profit.s))
                      IN [present |-> TRUE, neg |-> profit.n < 0,
                          whole |-> q.whole, cents |-> q.cents]
                 ELSE NoPayback]

\* POST /api/roi
PostApiRoi ==
    \E payload \in RoiInputs :
        /\ endpoint = "none"
        /\ endpoint' = "/api/roi"
        /\ roi_in' = payload
        /\ roi_out' = calculate_roi(payload)
        /\ UNCHANGED <<env, store, req, log, resp, db, test_resp>>

(***************************************************************************)
(* GET /test                                                               *)
(***************************************************************************)
\* Longest exception text tried.
MaxErrLen == 82

\* Most collections the store lists.
MaxCollections == 12

\* collections[:10]
ListShown == 10

\* str(e)[:80] of the listing error
ListErrCut == 80

\* str(e)[:80] of the import error
ImportErrCut == 80

\* The slice keeps one element too many.
Slice_OffByOne(seq, n) == SubSeq(seq, 1, Min(Len(seq), n + 1))

\* seq[:n]
Slice(seq, n) == SubSeq(seq, 1, Min(Len(seq), n))

\* A JSON string made of a fixed text followed by characters, and null.
\* The emoji of the source are written in ASCII: "OK", "X", "!".
Text(head, tail) == [t |-> "str", head |-> head, tail |-> tail]

Null == [t |-> "null", head |-> "", tail |-> <<>>]

\* An exception text of n characters.
ErrText(n) == [i \in 1..n |-> DecStr(i % 10)[1]]

ErrTexts == { ErrText(n) : n \in {0, 1} \cup ((MaxErrLen - 3)..MaxErrLen) }

\* The names of n collections.
Names(n) == [i \in 1..n |-> DecStr(i)]

\* What db.list_collection_names() can do: return a list, or raise.
ListOutcomes ==
    { [exc |-> FALSE, msg |-> <<>>, names |-> Names(n)] : n \in 0..MaxCollections }
    \cup { [exc |-> TRUE, msg |-> m, names |-> <<>>] : m \in ErrTexts }

\* The database module as the process finds it: whether `db` can be
\* imported from it, whether it is None, and its `name` attribute.
DbStates ==
    { [importable |-> FALSE, handle |-> FALSE, name |-> Unset],
      [importable |-> TRUE, handle |-> FALSE, name |-> Unset] }
    \cup { [importable |-> TRUE, handle |-> TRUE, name |-> n] :
              n \in {Unset, EnvVal(""), EnvVal("aplus")} }

NoTestResp ==
    [code |-> 0, backend |-> Null, database |-> Null, database_url |-> Null,
     database_name |-> Null, connection_status |-> Null, collections |-> <<>>]

\* test_database(): the response dictionary.
test_database(e, d, import_msg, lst) ==
    LET response ==
            [code |-> 200,
             backend |-> Text("OK Running", <<>>),
             database |-> Text("X Not Available", <<>>),
             database_url |-> Null,
             database_name |-> Null,
             connection_status |-> Text("Not Connected", <<>>),
             collections |-> <<>>]
    IN IF ~d.importable
       THEN [response EXCEPT
                !.database = Text("X Error: ", Slice(import_msg, ImportErrCut))]
       ELSE IF d.handle
       THEN LET r1 == [response EXCEPT
                         !.database = Text("OK Available", <<>>),
                         !.database_url =
                             IF Truthy(Getenv(e, "DATABASE_URL"))
                             THEN Text("OK Set", <<>>) ELSE Text("X Not Set", <<>>),
                         !.database_name =
                             IF Truthy(d.name)
                             THEN Text(d.name.val, <<>>) ELSE Text("OK Connected", <<>>),
                         !.connection_status = Text("Connected", <<>>)]
            IN IF lst.exc
               THEN [r1 EXCEPT
                        !.database = Text("! Connected but Error: ",
                                          Slice(lst.msg, ListErrCut))]
               ELSE [r1 EXCEPT
                        !.collections = Slice(lst.names, ListShown),
                        !.database = Text("OK Connected & Working", <<>>)]
       ELSE [response EXCEPT
                !.database = Text("! Available but not initialized", <<>>)]

\* GET /test
GetTest ==
    \E import_msg \in ErrTexts, lst \in ListOutcomes :
        /\ endpoint = "none"
        /\ endpoint' = "/test"
        /\ test_resp' = test_database(env, db, import_msg, lst)
        /\ log' = IF ~db.importable
                  THEN <<[ev |-> "import_db", exc |-> TRUE, msg |-> import_msg,
                          names |-> <<>>]>>
                  ELSE IF db.handle
                  THEN <<[ev |-> "list_collection_names", exc |-> lst.exc,
                          msg |-> lst.msg, names |-> lst.names]>>
                  ELSE <<>>
        /\ UNCHANGED <<env, store, req, resp, roi_in, roi_out, db>>

(***************************************************************************)
(* The server                                                              *)
(***************************************************************************)
\* The response has gone out: the request's objects are dropped and the
\* server waits for the next request.  Only the environment and the
\* document store outlive a request.
EndRequest ==
    /\ endpoint # "none"
    /\ endpoint' = "none"
    /\ req' = NoReq
    /\ log' = <<>>
    /\ resp' = NoResp
    /\ roi_in' = NoRoiIn
    /\ roi_out' = NoRoiOut
    /\ test_resp' = NoTestResp
    /\ UNCHANGED <<env, store, db>>

LeadEnvs == { e \in Envs : e["DATABASE_URL"] = EnvVal("mongodb://db") }

Init ==
    /\ env \in LeadEnvs
    /\ store = <<>>
    /\ endpoint = "none"
    /\ req = NoReq
    /\ log = <<>>
    /\ resp = NoResp
    /\ roi_in = NoRoiIn
    /\ roi_out = NoRoiOut
    /\ db = [importable |-> TRUE, handle |-> TRUE, name |-> EnvVal("aplus")]
    /\ test_resp = NoTestResp

Next ==
    \/ PostApiLeads
    \/ read_root
    \/ EndRequest

Spec == Init /\ [][Next]_vars

\* No e-mail provider and no alert address configured.
QuietEnvs ==
    { e \in Envs : /\ e["RESEND_API_KEY"] = Unset /\ e["MAILGUN_API_KEY"] = Unset
                   /\ e["MAILGUN_DOMAIN"] = Unset /\ e["NOTIFY_EMAIL"] = Unset }

InitRoi ==
    /\ env \in { e \in QuietEnvs : e["DATABASE_URL"] = EnvVal("mongodb://db") }
    /\ store = <<>>
    /\ endpoint = "none"
    /\ req = NoReq
    /\ log = <<>>
    /\ resp = NoResp
    /\ roi_in = NoRoiIn
    /\ roi_out = NoRoiOut
    /\ db = [importable |-> TRUE, handle |-> TRUE, name |-> EnvVal("aplus")]
    /\ test_resp = NoTestResp

NextRoi ==
    \/ PostApiRoi
    \/ EndRequest

SpecRoi == InitRoi /\ [][NextRoi]_vars

InitTest ==
    /\ env \in QuietEnvs
    /\ store = <<>>
    /\ endpoint = "none"
    /\ req = NoReq
    /\ log = <<>>
    /\ resp = NoResp
    /\ roi_in = NoRoiIn
    /\ roi_out = NoRoiOut
    /\ db \in DbStates
    /\ test_resp = NoTestResp

NextTest ==
    \/ GetTest
    \/ EndRequest

SpecTest == InitTest /\ [][NextTest]_vars

(***************************************************************************)
(* Properties of POST /api/leads                                           *)
(***************************************************************************)
LeadServed == endpoint = "/api/leads"

WriteEvents == SelectSeq(log, LAMBDA x : x.ev = "store_write")

SendEvents == SelectSeq(log, LAMBDA x : x.ev = "send")

\* The body carries a non-empty name and a syntactically valid email.
NamedWithValidEmail(p) ==
    /\ p.name.t = "str" /\ p.name.v # ""
    /\ p.email.t = "str" /\ ValidEmail(p.email.cs)

\* The body lacks a name or carries a malformed email.
LacksNameOrBadEmail(p) ==
    \/ p.name.t = "missing"
    \/ p.email.t = "missing"
    \/ (p.email.t = "str" /\ ~ValidEmail(p.email.cs))

Succeeded == resp.code = 200 /\ resp.status = "success" /\ resp.id # <<>>

Configured(name) == env[name].set /\ env[name].val # ""

\* C1 as stated: every body with a non-empty name and a valid email is
\* answered with status "success" and a non-empty identifier, whatever the
\* provider credentials and the outcome of the provider calls.
C1_ValidLeadAlwaysSucceeds ==
    (LeadServed /\ NamedWithValidEmail(req)) => Succeeded

\* C1 amended: every body with a non-empty name and a valid email whose
\* document store write does not raise is answered with status "success"
\* and a non-empty identifier, whatever the provider credentials and the
\* outcome of the provider calls.
C1_ValidLeadSucceedsWhenWritten ==
    (/\ LeadServed
     /\ NamedWithValidEmail(req)
     /\ \E i \in 1..Len(log) : log[i].ev = "store_write" /\ log[i].exc = NoExc)
    => Succeeded

\* A lead answered with success although a provider call failed with a
\* network error.
C1_Witness ==
    /\ LeadServed /\ NamedWithValidEmail(req) /\ Succeeded
    /\ \E i \in 1..Len(log) :
           /\ log[i].ev = "send"
           /\ Len(log[i].posts) = 1
           /\ log[i].posts[1].outcome.exc = "ConnectionError"

\* C2: a body that lacks a name or carries a malformed email is answered
\* with 422, and the request writes nothing to the document store and calls
\* the dispatcher not at all.
C2_InvalidLeadHasNoSideEffect ==
    [][(endpoint = "none" /\ endpoint' = "/api/leads" /\ LacksNameOrBadEmail(req'))
          => (resp'.code = 422 /\ log' = <<>> /\ store' = store)]_vars

\* A malformed email rejected while the store already holds a lead.
C2_Witness ==
    /\ LeadServed
    /\ req.name.t = "str" /\ req.email.t = "str" /\ ~ValidEmail(req.email.cs)
    /\ resp.code = 422 /\ "email" \in resp.errors
    /\ store # <<>>

\* C3 as stated: every stored lead has a non-empty name and a valid email,
\* and a request whose name is the empty string reaches neither the store
\* nor the dispatcher.
C3_StoredNamesNonEmpty ==
    /\ \A i \in 1..Len(store) :
           store[i].doc.name # "" /\ ValidEmail(store[i].doc.email)
    /\ (LeadServed /\ req.name.t = "str" /\ req.name.v = "") => log = <<>>

\* C4: when the document store write raises, the response is 500 with the
\* exception's text as detail, the dispatcher is not called, and the write
\* is attempted once.
C4_WriteFailureIs500 ==
    (LeadServed /\ \E i \in 1..Len(log) : log[i].ev = "store_write" /\ log[i].exc # NoExc)
    => /\ Len(WriteEvents) = 1
       /\ resp.code = 500
       /\ resp.detail = WriteEvents[1].exc.msg
       /\ resp.status = "" /\ resp.id = <<>>
       /\ SendEvents = <<>>

\* A write that raised ServerSelectionTimeoutError, reported as 500.
C4_Witness ==
    /\ LeadServed
    /\ Len(log) = 1 /\ log[1].ev = "store_write"
    /\ log[1].exc.type = "ServerSelectionTimeoutError"
    /\ resp.code = 500

\* C5: send_auto_email returns normally whatever the credentials and the
\* outcome of the provider call, so a 500 of POST /api/leads never follows
\* a dispatcher call.
C5_SendNeverRaises ==
    LeadServed =>
        /\ \A i \in 1..Len(log) : log[i].ev = "send" => log[i].raised = ""
        /\ resp.code = 500 => SendEvents = <<>>

\* Calls whose provider answered with an error status and whose provider
\* timed out, both discarded.
C5_Witness ==
    /\ LeadServed /\ resp.code = 200
    /\ \E i \in 1..Len(log) :
           log[i].ev = "send" /\ log[i].caught = "HTTPError" /\ log[i].raised = ""
    /\ \E i \in 1..Len(log) :
           log[i].ev = "send" /\ log[i].caught = "Timeout" /\ log[i].raised = ""

\* C6: each call of send_auto_email makes at most one provider request:
\* to Resend when its key is configured, else to Mailgun when key and domain
\* are both configured, else none; a failed attempt is followed by no other.
C6_OneProviderByPriority ==
    LeadServed =>
        \A i \in 1..Len(log) : log[i].ev = "send" =>
            LET n == Len(log[i].posts)
                resend == Configured("RESEND_API_KEY")
                mailgun == Configured("MAILGUN_API_KEY") /\ Configured("MAILGUN_DOMAIN")
            IN /\ n <= 1
               /\ resend => (n = 1 /\ log[i].posts[1].provider = "resend")
               /\ (~resend /\ mailgun) => (n = 1 /\ log[i].posts[1].provider = "mailgun")
               /\ (~resend /\ ~mailgun) => n = 0

\* Both providers configured and the Resend attempt failed: one request.
C6_Witness ==
    /\ LeadServed
    /\ Configured("RESEND_API_KEY")
    /\ Configured("MAILGUN_API_KEY") /\ Configured("MAILGUN_DOMAIN")
    /\ \E i \in 1..Len(log) :
           /\ log[i].ev = "send" /\ log[i].caught # ""
           /\ Len(log[i].posts) = 1 /\ log[i].posts[1].provider = "resend"

\* C10: a request whose validation and write succeed performs, in this
\* order, one store write, one dispatcher call for the confirmation to the
\* lead's email, one dispatcher call for the alert to NOTIFY_EMAIL exactly
\* when that is configured, and then answers with the identifier its own
\* write returned.
C10_WriteConfirmAlertRespond ==
    (LeadServed /\ resp.code = 200) =>
        LET alert == env["NOTIFY_EMAIL"].set /\ env["NOTIFY_EMAIL"].val # ""
        IN /\ Len(log) = (IF alert THEN 3 ELSE 2)
           /\ log[1].ev = "store_write" /\ log[1].exc = NoExc
           /\ log[1].doc.name = req.name.v
           /\ store # <<>> /\ store[Len(store)] = [id |-> log[1].id, doc |-> log[1].doc]
           /\ log[2].ev = "send" /\ log[2].kind = "confirmation"
           /\ log[2].to = log[1].doc.email
           /\ \A k \in 1..Len(log[2].posts) : log[2].posts[k].to = log[1].doc.email
           /\ alert => /\ log[3].ev = "send" /\ log[3].kind = "internal"
                       /\ log[3].to = env["NOTIFY_EMAIL"].val
                       /\ \A k \in 1..Len(log[3].posts) :
                              log[3].posts[k].to = env["NOTIFY_EMAIL"].val
           /\ resp.status = "success" /\ resp.id = log[1].id

\* Both dispatcher calls made, each with a provider request, then success.
C10_Witness ==
    /\ LeadServed /\ resp.code = 200
    /\ Len(log) = 3
    /\ log[2].ev = "send" /\ Len(log[2].posts) = 1
    /\ log[3].ev = "send" /\ Len(log[3].posts) = 1
    /\ Len(store) = 2 /\ resp.id = store[2].id

(***************************************************************************)
(* Properties of POST /api/roi                                             *)
(***************************************************************************)
RoiServed == endpoint = "/api/roi"

\* daily_sessions*30*avg_kwh_per_session*tariff_per_kwh as an integer over
\* a power of ten.
RevenueS == roi_in.daily_sessions.s + roi_in.avg_kwh_per_session.s + roi_in.tariff_per_kwh.s

RevenueN == roi_in.daily_sessions.n * 30 * roi_in.avg_kwh_per_session.n * roi_in.tariff_per_kwh.n

\* daily_sessions*30*avg_kwh_per_session*cost_per_kwh + opex_per_month
EnergyCostS == roi_in.daily_sessions.s + roi_in.avg_kwh_per_session.s + roi_in.cost_per_kwh.s

CostS == Max(EnergyCostS, roi_in.opex_per_month.s)

CostN ==
    roi_in.daily_sessions.n * 30 * roi_in.avg_kwh_per_session.n * roi_in.cost_per_kwh.n
        * Pow10(CostS - EnergyCostS)
    + roi_in.opex_per_month.n * Pow10(CostS - roi_in.opex_per_month.s)

\* revenue - monthly_cost, unrounded
ProfitS == Max(RevenueS, CostS)

ProfitN == RevenueN * Pow10(ProfitS - RevenueS) - CostN * Pow10(ProfitS - CostS)

\* x as a number of cents, for x with at most two decimal places
Cents(x) == x.n * Pow10(2 - x.s)

\* C7 as stated: payback_months is present exactly when the reported
\* monthly_profit is > 0 and station_cost is > 0.
C7_PaybackIffReportedProfit ==
    RoiServed =>
        (roi_out.payback_months.present
            <=> (roi_out.monthly_profit.n > 0 /\ roi_in.station_cost.n > 0))

\* C7 amended: payback_months is present exactly when the unrounded profit
\* is > 0 and station_cost is > 0; whenever the profit is <= 0 it is absent
\* and the reported monthly_profit is zero or negative; whenever the
\* reported monthly_profit is > 0 and station_cost is > 0 it is present.
C7_PaybackIffProfit ==
    RoiServed =>
        /\ roi_out.payback_months.present <=> (ProfitN > 0 /\ roi_in.station_cost.n > 0)
        /\ ProfitN <= 0 =>
               (~roi_out.payback_months.present /\ roi_out.monthly_profit.n <= 0)
        /\ (roi_out.monthly_profit.n > 0 /\ roi_in.station_cost.n > 0) =>
               roi_out.payback_months.present

\* A profit under half a cent: reported as 0.00, with a payback.
C7_Witness ==
    /\ RoiServed
    /\ ProfitN > 0 /\ roi_in.station_cost.n > 0
    /\ roi_out.monthly_profit.n = 0
    /\ roi_out.payback_months.present

ExampleIn ==
    [daily_sessions |-> Dec(10, 0), avg_kwh_per_session |-> Dec(20, 0),
     tariff_per_kwh |-> Dec(10, 0), cost_per_kwh |-> Dec(6, 0),
     station_cost |-> Dec(100000, 0), opex_per_month |-> Dec(0, 0)]

\* C8: the call answers 200 with monthly_revenue, monthly_cost and
\* monthly_profit the two-decimal roundings of the unrounded products and
\* difference, and payback_months, when present, the two-decimal rounding of
\* station_cost over the unrounded profit; the documented example gives
\* 60000, 36000, 24000 and 4.17.
C8_RoiFormulas ==
    RoiServed =>
        /\ roi_out.code = 200
        /\ roi_out.monthly_revenue = Round2(Norm(Dec(RevenueN, RevenueS)))
        /\ roi_out.monthly_cost = Round2(Norm(Dec(CostN, CostS)))
        /\ roi_out.monthly_profit = Round2(Norm(Dec(ProfitN, ProfitS)))
        /\ roi_out.payback_months.present =>
               LET q == RoundDiv2(roi_in.station_cost, Norm(Dec(ProfitN, ProfitS)))
               IN /\ ~roi_out.payback_months.neg
                  /\ roi_out.payback_months.whole = q.whole
                  /\ roi_out.payback_months.cents = q.cents
        /\ roi_in = ExampleIn =>
               /\ Cents(roi_out.monthly_revenue) = 6000000
               /\ Cents(roi_out.monthly_cost) = 3600000
               /\ Cents(roi_out.monthly_profit) = 2400000
               /\ roi_out.payback_months =
                      [present |-> TRUE, neg |-> FALSE, whole |-> 4, cents |-> 17]

\* The documented example, answered.
C8_Witness ==
    /\ RoiServed /\ roi_in = ExampleIn
    /\ roi_out.code = 200
    /\ roi_out.payback_months.present /\ roi_out.payback_months.whole = 4

(***************************************************************************)
(* Properties of GET /test                                                 *)
(***************************************************************************)
TestServed == endpoint = "/test"

IsStr(v) == v.t = "str"

IsNull(v) == v.t = "null" /\ v.head = "" /\ v.tail = <<>>

\* C9 as stated: the endpoint answers 200 with backend, database,
\* database_url, database_name and connection_status strings, at most 10
\* collections, and an error text of at most 80 characters.
C9_FiveStrings ==
    TestServed =>
        /\ test_resp.code = 200
        /\ IsStr(test_resp.backend) /\ IsStr(test_resp.database)
        /\ IsStr(test_resp.database_url) /\ IsStr(test_resp.database_name)
        /\ IsStr(test_resp.connection_status)
        /\ Len(test_resp.collections) <= 10
        /\ Len(test_resp.database.tail) <= 80

\* C9 amended: the endpoint answers 200 with the six fields; backend,
\* database and connection_status are strings; database_url and
\* database_name are strings when the store handle is present and null
\* when it is absent or its import fails; collections holds at most 10
\* names, the first ones listed; a failure appears only as text in
\* database, the first 80 characters of the exception's text at most.
C9_TestNeverFails ==
    TestServed =>
        /\ test_resp.code = 200
        /\ IsStr(test_resp.backend) /\ IsStr(test_resp.database)
        /\ IsStr(test_resp.connection_status)
        /\ IF db.importable /\ db.handle
           THEN IsStr(test_resp.database_url) /\ IsStr(test_resp.database_name)
           ELSE IsNull(test_resp.database_url) /\ IsNull(test_resp.database_name)
        /\ Len(test_resp.collections) <= 10
        /\ Len(test_resp.database.tail) <= 80
        /\ \A i \in 1..Len(log) :
               /\ log[i].exc =>
                      /\ Len(test_resp.database.tail) = Min(80, Len(log[i].msg))
                      /\ \A k \in 1..Len(test_resp.database.tail) :
                             test_resp.database.tail[k] = log[i].msg[k]
                      /\ test_resp.collections = <<>>
               /\ ~log[i].exc =>
                      /\ Len(test_resp.collections) = Min(10, Len(log[i].names))
                      /\ \A k \in 1..Len(test_resp.collections) :
                             test_resp.collections[k] = log[i].names[k]
                      /\ test_resp.database.tail = <<>>

\* The listing raised with a text of more than 80 characters.
C9_Witness ==
    /\ TestServed /\ test_resp.code = 200
    /\ Len(log) = 1 /\ log[1].ev = "list_collection_names"
    /\ log[1].exc /\ Len(log[1].msg) > 80
    /\ Len(test_resp.database.tail) = 80
    /\ IsStr(test_resp.database_url)

====
